---------------------------- MODULE Spec2Model ----------------------------
(***************************************************************************)
(* A model of csv-cpp (csv.hpp, prototypes.hpp): the sequential reader,    *)
(* the parallel chunked reader (read_async_from_buffer with its pool of    *)
(* async_reader workers), and the sequential and parallel writers.         *)
(*                                                                         *)
(* Bytes are one-character strings; a stream is a sequence of bytes with   *)
(* a get position (the number of bytes already consumed).                  *)
(***************************************************************************)
EXTENDS Integers, Sequences, FiniteSets, TLC

VARIABLES
    \* ---- the reading call --------------------------------------------
    source,        \* the bytes of the file (header line and body)
    blockSize,     \* the size of subBuffer, the target chunk size
    poolSize,      \* the number of async_reader objects in the pool
    method,        \* Method::DEFAULT or Method::ASYNC
    fileOpens,     \* whether the file at the path can be opened
    cpc,           \* the position of the calling (coordinating) thread
    gpos,          \* the get position of buffer
    chunks,        \* the chunks produced so far, in production order
    storages,      \* storages: one vector of rows per chunk
    reader_index,  \* the index of the reader the next chunk goes to
    queue,         \* m_queue of every async_reader
    running,       \* m_running of every async_reader
    wpc,           \* the position of every worker thread in run()
    dtor,          \* the reader whose destructor is running, -1 for none
    joined,        \* the readers whose worker has been joined
    finished,      \* the slots whose job was popped, in completion order
    document,      \* the Document built by the call
    result,        \* how the call ended
    \* ---- the writing call --------------------------------------------
    wmode,         \* the writing entry point: write or write_async
    rows,          \* the rows argument
    header,        \* the header argument
    wpc_,          \* the position of the writing call
    buffer,        \* the string stream write fills
    streams,       \* the buffer of every writer thread
    wthread,       \* the state of every writer thread
    file           \* the bytes of the destination file, NoFile when absent

readerVars == <<source, blockSize, poolSize, method, cpc, gpos, chunks,
                storages, reader_index, queue, running, wpc, dtor, joined,
                finished, document>>
writerVars == <<wmode, rows, header, wpc_, buffer, streams, wthread, file>>
vars == <<readerVars, writerVars, fileOpens, result>>

-----------------------------------------------------------------------------
(* Bounds of the model *)

MaxLines == 2
MaxBlock == 4
MaxPool == 2
MaxBody == 5
MaxRows == 16

\* the width given to unsigned int: the arithmetic of write_async is modulo
\* 2^WordBits (32 bits in the build, fewer here: the integers of TLC
\* are 32 bits wide, and no row count of the model comes near 2^WordBits)
WordBits == 16

-----------------------------------------------------------------------------
(* Constants of csv.hpp *)

thread_num == 8

-----------------------------------------------------------------------------
(* Bytes and streams *)

NL == "\n"
Delimiter == ","
EOFChar == "EOF"
Indeterminate == "indeterminate"
NoFile == "no file"
NoDocument == [absent |-> TRUE]

Min(a, b) == IF a < b THEN a ELSE b

DigitChars == <<"0", "1", "2", "3", "4", "5", "6", "7", "8", "9">>

IsDigit(c) == \E i \in 1..10 : DigitChars[i] = c

DigitVal(c) == (CHOOSE i \in 1..10 : DigitChars[i] = c) - 1

\* the characters of s from index i on
Drop(s, i) == SubSeq(s, i, Len(s))

\* the index of the first c in s, 0 when there is none
IndexOf(s, c) ==
    IF \E i \in 1..Len(s) : s[i] = c
    THEN CHOOSE i \in 1..Len(s) : s[i] = c /\ \A j \in 1..(i - 1) : s[j] # c
    ELSE 0

\* rdbuf()->in_avail() of a string stream: the bytes left to read
InAvail(src, pos) == Len(src) - pos

\* std::getline(stream, line, delim) on the bytes left in a stream: fails when
\* nothing is left, else yields the bytes before the first delim and consumes
\* them and the delim
GetLine(s, delim) ==
    LET i == IndexOf(s, delim)
    IN  IF Len(s) = 0 THEN [ok |-> FALSE, line |-> <<>>, rest |-> <<>>, eof |-> TRUE]
        ELSE IF i = 0 THEN [ok |-> TRUE, line |-> s, rest |-> <<>>, eof |-> TRUE]
        ELSE [ok |-> TRUE, line |-> SubSeq(s, 1, i - 1), rest |-> Drop(s, i + 1),
              eof |-> FALSE]

\* every line std::getline yields from the bytes s, in order
RECURSIVE GetLines(_)
GetLines(s) ==
    LET g == GetLine(s, NL)
    IN  IF g.ok THEN <<g.line>> \o GetLines(g.rest) ELSE <<>>

\* the value of the longest prefix of decimal digits of s, after acc
RECURSIVE ParseDigits(_, _)
ParseDigits(s, acc) ==
    IF Len(s) > 0 /\ IsDigit(s[1])
    THEN ParseDigits(Drop(s, 2), 10 * acc + DigitVal(s[1]))
    ELSE acc

\* operator>>(int&): an unreadable stream leaves the int untouched, a field that
\* does not start with a digit stores 0
ExtractInt(s, good) ==
    IF ~good \/ Len(s) = 0 THEN [ok |-> FALSE, value |-> Indeterminate]
    ELSE IF IsDigit(s[1]) THEN [ok |-> TRUE, value |-> ParseDigits(s, 0)]
    ELSE [ok |-> FALSE, value |-> 0]

\* the decimal digits of n
RECURSIVE ToDec(_)
ToDec(n) ==
    IF n < 10 THEN <<DigitChars[n + 1]>>
    ELSE ToDec(n \div 10) \o <<DigitChars[(n % 10) + 1]>>

-----------------------------------------------------------------------------
(* person_prototype *)

get_delimiter == Delimiter

\* person_prototype::deserialize: the name up to the delimiter, then the age
deserialize(line) ==
    LET g == GetLine(line, get_delimiter)
        a == ExtractInt(g.rest, g.ok /\ ~g.eof)
    IN  [name |-> g.line, age |-> a.value]

\* whether the extraction of the age failed on this line
DecodeFails(line) ==
    LET g == GetLine(line, get_delimiter)
    IN  ~ExtractInt(g.rest, g.ok /\ ~g.eof).ok

\* a serialize that ends no line
serializeNoNewline(p) == p.name \o <<get_delimiter>> \o ToDec(p.age)

\* person_prototype::serialize: name, delimiter, age, end of line
serialize(p) == p.name \o <<get_delimiter>> \o ToDec(p.age) \o <<NL>>

\* the rows of a sequence of lines
DecodeLines(lines) == [i \in 1..Len(lines) |-> deserialize(lines[i])]

-----------------------------------------------------------------------------
(* Header and sequential reader *)

\* the cells of a header line
RECURSIVE SplitCells(_)
SplitCells(s) ==
    LET g == GetLine(s, get_delimiter)
    IN  IF g.ok THEN <<g.line>> \o SplitCells(g.rest) ELSE <<>>

\* read_header_from_buffer: the cells of the first line and the get position
\* after it
read_header_from_buffer(src) ==
    LET g == GetLine(src, NL)
    IN  [header |-> SplitCells(g.line), pos |-> Len(src) - Len(g.rest)]

\* the bytes after the header line
BodyOf(src) == Drop(src, read_header_from_buffer(src).pos + 1)

\* read_from_buffer: the header, then one row per line of the rest
read_from_buffer(src) ==
    [header |-> read_header_from_buffer(src).header,
     rows   |-> DecodeLines(GetLines(BodyOf(src)))]

-----------------------------------------------------------------------------
(* The chunk splitting loop of read_async_from_buffer *)

\* buffer.get(): the next byte, or EOF with the position unchanged
Get(src, pos) ==
    IF pos < Len(src) THEN [c |-> src[pos + 1], pos |-> pos + 1]
    ELSE [c |-> EOFChar, pos |-> pos]

\* the loop that completes the last line: c is appended and the next byte read
\* while c is no newline and bytes are left; the last byte read is not appended
RECURSIVE CompleteLine(_, _, _, _)
CompleteLine(src, pos, text, c) ==
    IF c # NL /\ InAvail(src, pos) > 0
    THEN CompleteLine(src, pos + 1, Append(text, c), src[pos + 1])
    ELSE [text |-> text, pos |-> pos]

\* one iteration of a splitting loop that cuts the source into blocks and
\* completes no line
NextChunkBlockOnly(src, pos, size) ==
    LET extractNum == Min(size, InAvail(src, pos))
    IN  [text |-> SubSeq(src, pos + 1, pos + extractNum), from |-> pos + 1,
         pos |-> pos + extractNum]

\* one iteration of the splitting loop from get position pos: readsome of a
\* block, get of one byte, then the completion of the last line
NextChunk(src, pos, size) ==
    LET extractNum == Min(size, InAvail(src, pos))
        block == SubSeq(src, pos + 1, pos + extractNum)
        g == Get(src, pos + extractNum)
        done == CompleteLine(src, g.pos, block, g.c)
    IN  [text |-> done.text, from |-> pos + 1, pos |-> done.pos]

\* the concatenation of a sequence of sequences
RECURSIVE Flatten(_)
Flatten(ss) == IF Len(ss) = 0 THEN <<>> ELSE ss[1] \o Flatten(Drop(ss, 2))


-----------------------------------------------------------------------------
(* Inputs of the reading call *)

HeaderLine == <<"N", ",", "A">>

\* a well-formed line and one whose age is not a number
LineSet == { <<"a", ",", "1">>, <<"c", ",", "x">> }

\* the file made of the header line and the given lines, each ended by a newline
RECURSIVE JoinLines(_)
JoinLines(lines) ==
    IF Len(lines) = 0 THEN <<>>
    ELSE lines[1] \o <<NL>> \o JoinLines(Drop(lines, 2))

SourceOf(lines) == HeaderLine \o <<NL>> \o JoinLines(lines)

LineSeqs == UNION { [1..n -> LineSet] : n \in 0..MaxLines }

Readers == 0..(MaxPool - 1)
Pool == 0..(poolSize - 1)

WriterIdle ==
    /\ wmode = "none"
    /\ rows = <<>>
    /\ header = <<>>
    /\ wpc_ = "idle"
    /\ buffer = <<>>
    /\ streams = <<>>
    /\ wthread = <<>>
    /\ file = NoFile

ReaderStart ==
    /\ cpc = "open"
    /\ gpos = 0
    /\ chunks = <<>>
    /\ storages = <<>>
    /\ reader_index = 0
    /\ queue = [w \in Readers |-> <<>>]
    /\ running = [w \in Readers |-> TRUE]
    /\ wpc = [w \in Readers |-> "absent"]
    /\ dtor = -1
    /\ joined = {}
    /\ finished = <<>>
    /\ document = NoDocument
    /\ result = "none"

Init ==
    /\ source \in { SourceOf(ls) : ls \in LineSeqs }
    /\ blockSize \in 1..MaxBlock
    /\ poolSize \in 1..MaxPool
    /\ method \in {"DEFAULT", "ASYNC"}
    /\ fileOpens \in BOOLEAN
    /\ ReaderStart
    /\ WriterIdle

-----------------------------------------------------------------------------
(* read_from_file and read_async_from_buffer: the calling thread *)

\* get_buffer_from_file fails: io_exception, nothing else has happened
OpenFails ==
    /\ cpc = "open"
    /\ ~fileOpens
    /\ result' = "io_exception"
    /\ cpc' = "done"
    /\ UNCHANGED <<source, blockSize, poolSize, method, gpos, chunks, storages,
                   reader_index, queue, running, wpc, dtor, joined, finished,
                   document, writerVars, fileOpens>>

\* Method::DEFAULT: read_from_buffer on the calling thread
ReadDefault ==
    /\ cpc = "open"
    /\ fileOpens
    /\ method = "DEFAULT"
    /\ document' = read_from_buffer(source)
    /\ gpos' = Len(source)
    /\ result' = "ok"
    /\ cpc' = "done"
    /\ UNCHANGED <<source, blockSize, poolSize, method, chunks, storages,
                   reader_index, queue, running, wpc, dtor, joined, finished,
                   writerVars, fileOpens>>

\* Method::ASYNC: read_async_from_buffer reads the header
ReadHeader ==
    /\ cpc = "open"
    /\ fileOpens
    /\ method = "ASYNC"
    /\ document' = [header |-> read_header_from_buffer(source).header, rows |-> <<>>]
    /\ gpos' = read_header_from_buffer(source).pos
    /\ cpc' = "pool"
    /\ UNCHANGED <<source, blockSize, poolSize, method, chunks, storages,
                   reader_index, queue, running, wpc, dtor, joined, finished,
                   writerVars, fileOpens, result>>

\* the pool is filled: every async_reader starts its worker thread
SpawnPool ==
    /\ cpc = "pool"
    /\ wpc' = [w \in Readers |-> IF w \in Pool THEN "wait_queue" ELSE "absent"]
    /\ cpc' = "split"
    /\ UNCHANGED <<source, blockSize, poolSize, method, gpos, chunks, storages,
                   reader_index, queue, running, dtor, joined, finished,
                   document, writerVars, fileOpens, result>>

\* one iteration of the splitting loop up to the new storage
SplitChunk ==
    /\ cpc = "split"
    /\ InAvail(source, gpos) > 0
    /\ LET ch == NextChunk(source, gpos, blockSize)
       IN  /\ chunks' = Append(chunks, [text |-> ch.text, from |-> ch.from])
           /\ gpos' = ch.pos
    /\ storages' = Append(storages, <<>>)
    /\ cpc' = "enqueue"
    /\ UNCHANGED <<source, blockSize, poolSize, method, reader_index, queue,
                   running, wpc, dtor, joined, finished, document, writerVars,
                   fileOpens, result>>

\* the worker of reader w is about to call m_queue.pop()
AboutToPop(w) ==
    /\ wpc[w] = "getline"
    /\ Len(queue[w]) > 0
    /\ ~GetLine(queue[w][1].stream, NL).ok

\* what a push into m_queue can do: m_queue is not locked by enqueue, so a
\* push that runs together with the worker's pop is a data race on the queue
PushOutcomes(w) ==
    IF AboutToPop(w) THEN {"stored", "lost", "abort"} ELSE {"stored"}

\* enqueue: m_queue.push({storage, buffer})
Enqueue ==
    /\ cpc = "enqueue"
    /\ \E outcome \in PushOutcomes(reader_index) :
         /\ queue' = IF outcome = "stored"
                     THEN [queue EXCEPT ![reader_index] =
                             Append(@, [slot |-> Len(storages),
                                        stream |-> chunks[Len(chunks)].text])]
                     ELSE queue
         /\ cpc' = IF outcome = "abort" THEN "done" ELSE "notify"
         /\ result' = IF outcome = "abort" THEN "terminated" ELSE result
    /\ UNCHANGED <<source, blockSize, poolSize, method, gpos, chunks, storages,
                   reader_index, running, wpc, dtor, joined, finished, document,
                   writerVars, fileOpens>>

\* m_cv.notify_one(): a waiting worker is woken, otherwise nothing happens
Notified(w) == [wpc EXCEPT ![w] = IF @ = "waiting" THEN "wait_queue" ELSE @]

\* the reader after reader i, always reader i
NextReaderStay(i) == i

\* the reader the chunk after the one given to reader i goes to
NextReader(i) == IF i < poolSize - 1 THEN i + 1 ELSE 0

\* enqueue: m_cv.notify_one(), then the next reader_index
EnqueueNotify ==
    /\ cpc = "notify"
    /\ wpc' = Notified(reader_index)
    /\ reader_index' = NextReader(reader_index)
    /\ cpc' = "split"
    /\ UNCHANGED <<source, blockSize, poolSize, method, gpos, chunks, storages,
                   queue, running, dtor, joined, finished, document, writerVars,
                   fileOpens, result>>

\* the splitting loop ends: nothing is left in the buffer
SplitDone ==
    /\ cpc = "split"
    /\ InAvail(source, gpos) = 0
    /\ cpc' = "destroy"
    /\ UNCHANGED <<source, blockSize, poolSize, method, gpos, chunks, storages,
                   reader_index, queue, running, wpc, dtor, joined, finished,
                   document, writerVars, fileOpens, result>>

\* ~async_reader of the next reader of the pool: shut_down sets m_running
ShutDown(w) ==
    /\ cpc = "destroy"
    /\ w \in Pool \ joined
    /\ \A v \in Pool \ joined : w <= v
    /\ running' = [running EXCEPT ![w] = FALSE]
    /\ dtor' = w
    /\ cpc' = "shut_notify"
    /\ UNCHANGED <<source, blockSize, poolSize, method, gpos, chunks, storages,
                   reader_index, queue, wpc, joined, finished, document,
                   writerVars, fileOpens, result>>

\* shut_down: m_cv.notify_one()
ShutDownNotify ==
    /\ cpc = "shut_notify"
    /\ wpc' = Notified(dtor)
    /\ cpc' = "join"
    /\ UNCHANGED <<source, blockSize, poolSize, method, gpos, chunks, storages,
                   reader_index, queue, running, dtor, joined, finished,
                   document, writerVars, fileOpens, result>>

\* ~async_reader: m_worker.join() returns once run() has returned
Join ==
    /\ cpc = "join"
    /\ wpc[dtor] = "done"
    /\ joined' = joined \cup {dtor}
    /\ dtor' = -1
    /\ cpc' = IF joined' = Pool THEN "collect" ELSE "destroy"
    /\ UNCHANGED <<source, blockSize, poolSize, method, gpos, chunks, storages,
                   reader_index, queue, running, wpc, finished, document,
                   writerVars, fileOpens, result>>

\* the rows of the storages appended in the order the jobs were completed
CollectRowsByCompletion(ss) == Flatten([i \in 1..Len(finished) |-> ss[finished[i]]])

\* the rows of the storages are appended to the document, in storage order
CollectRows(ss) == Flatten(ss)

Collect ==
    /\ cpc = "collect"
    /\ document' = [document EXCEPT !.rows = CollectRows(storages)]
    /\ result' = "ok"
    /\ cpc' = "done"
    /\ UNCHANGED <<source, blockSize, poolSize, method, gpos, chunks, storages,
                   reader_index, queue, running, wpc, dtor, joined, finished,
                   writerVars, fileOpens>>

-----------------------------------------------------------------------------
(* async_reader::run: the worker thread of reader w *)

workerFrame == <<source, blockSize, poolSize, method, cpc, gpos, chunks,
                 reader_index, running, dtor, joined, document, writerVars,
                 fileOpens, result>>

Alive == result # "terminated"

\* m_lock is taken and the wait predicate reads m_queue.empty()
WaitQueue(w) ==
    /\ Alive
    /\ wpc[w] = "wait_queue"
    /\ wpc' = [wpc EXCEPT ![w] = IF Len(queue[w]) > 0 THEN "loop" ELSE "wait_running"]
    /\ UNCHANGED <<workerFrame, storages, queue, finished>>

\* the wait predicate reads m_running
WaitRunning(w) ==
    /\ Alive
    /\ wpc[w] = "wait_running"
    /\ wpc' = [wpc EXCEPT ![w] = IF ~running[w] THEN "loop" ELSE "block"]
    /\ UNCHANGED <<workerFrame, storages, queue, finished>>

\* the predicate was false: m_cv.wait releases m_lock and blocks
Block(w) ==
    /\ Alive
    /\ wpc[w] = "block"
    /\ wpc' = [wpc EXCEPT ![w] = "waiting"]
    /\ UNCHANGED <<workerFrame, storages, queue, finished>>

\* a condition variable may wake without a notification
SpuriousWake(w) ==
    /\ Alive
    /\ wpc[w] = "waiting"
    /\ wpc' = [wpc EXCEPT ![w] = "wait_queue"]
    /\ UNCHANGED <<workerFrame, storages, queue, finished>>

\* while (!m_queue.empty())
LoopCheck(w) ==
    /\ Alive
    /\ wpc[w] = "loop"
    /\ wpc' = [wpc EXCEPT ![w] = IF Len(queue[w]) > 0 THEN "getline" ELSE "check_running"]
    /\ UNCHANGED <<workerFrame, storages, queue, finished>>

\* the slot a row decoded from job goes to
TargetSlot(job) == job.slot

\* std::getline on the front job yields a line: it is deserialized into the
\* job's storage
DecodeLine(w) ==
    /\ Alive
    /\ wpc[w] = "getline"
    /\ Len(queue[w]) > 0
    /\ LET job == queue[w][1]
           g == GetLine(job.stream, NL)
       IN  /\ g.ok
           /\ storages' = [storages EXCEPT ![TargetSlot(job)] =
                             Append(@, deserialize(g.line))]
           /\ queue' = [queue EXCEPT ![w][1].stream = g.rest]
    /\ UNCHANGED <<workerFrame, wpc, finished>>

\* std::getline on the front job fails: m_queue.pop()
Pop(w) ==
    /\ Alive
    /\ wpc[w] = "getline"
    /\ Len(queue[w]) > 0
    /\ ~GetLine(queue[w][1].stream, NL).ok
    /\ finished' = Append(finished, queue[w][1].slot)
    /\ queue' = [queue EXCEPT ![w] = Tail(@)]
    /\ wpc' = [wpc EXCEPT ![w] = "loop"]
    /\ UNCHANGED <<workerFrame, storages>>

\* if (!m_running) break; otherwise m_lock is released and taken again
CheckRunning(w) ==
    /\ Alive
    /\ wpc[w] = "check_running"
    /\ wpc' = [wpc EXCEPT ![w] = IF ~running[w] THEN "done" ELSE "wait_queue"]
    /\ UNCHANGED <<workerFrame, storages, queue, finished>>

run(w) ==
    \/ WaitQueue(w)
    \/ WaitRunning(w)
    \/ Block(w)
    \/ LoopCheck(w)
    \/ DecodeLine(w)
    \/ Pop(w)
    \/ CheckRunning(w)

\* the calling thread inside read_async_from_buffer
AsyncCoordinator ==
    \/ ReadHeader
    \/ SpawnPool
    \/ SplitChunk
    \/ Enqueue
    \/ EnqueueNotify
    \/ SplitDone
    \/ \E w \in Readers : ShutDown(w)
    \/ ShutDownNotify
    \/ Join
    \/ Collect

\* read_async_from_buffer and its pool
NextAsync ==
    \/ AsyncCoordinator
    \/ \E w \in Readers : run(w)
    \/ \E w \in Readers : SpuriousWake(w)

\* read_from_file
Next ==
    \/ OpenFails
    \/ ReadDefault
    \/ NextAsync

Spec == Init /\ [][Next]_vars

-----------------------------------------------------------------------------
(* Properties of the parallel reader *)

\* a valid input: every line after the header is non-empty, ended by a newline
\* and read by the codec without a failure
ValidInput ==
    LET body == BodyOf(source)
    IN  /\ Len(body) > 0 => body[Len(body)] = NL
        /\ \A i \in 1..Len(GetLines(body)) :
             /\ Len(GetLines(body)[i]) > 0
             /\ ~DecodeFails(GetLines(body)[i])

AsyncReturned == method = "ASYNC" /\ cpc = "done" /\ result = "ok"

\* C1: for a valid input the Document read_async_from_buffer returns has the
\* header and the rows, in order, that read_from_buffer returns for the same
\* bytes, whatever the pool size, the block size and the interleaving
C1_AsyncEqualsSequential ==
    (AsyncReturned /\ ValidInput) => document = read_from_buffer(source)

\* the lines of chunk k
ChunkLines(k) == GetLines(chunks[k].text)

\* C2: storage k is the slot of chunk k: it only ever holds rows decoded from
\* chunk k, in the order of its lines, and the rows of the returned Document
\* are the storages concatenated in the order the chunks were produced,
\* whatever the order in which the jobs were completed
C2_RowsInChunkOrder ==
    /\ Len(storages) = Len(chunks)
    /\ \A k \in 1..Len(storages) :
         /\ Len(storages[k]) <= Len(ChunkLines(k))
         /\ storages[k] = SubSeq(DecodeLines(ChunkLines(k)), 1, Len(storages[k]))
    /\ \A w \in Readers : \A j \in 1..Len(queue[w]) :
         queue[w][j].slot \in 1..Len(storages)
    /\ AsyncReturned =>
         /\ document.rows = Flatten(storages)
         /\ \A k \in 1..Len(storages) :
              storages[k] \in {<<>>, DecodeLines(ChunkLines(k))}

\* two jobs were completed in the reverse of the order of their chunks, and
\* the Document was returned with the rows of both
C2_Witness ==
    /\ AsyncReturned
    /\ finished = <<2, 1>>
    /\ Len(storages[1]) > 0
    /\ Len(storages[2]) > 0
    /\ storages[1] # storages[2]

\* every job that was enqueued has been decoded in full into its storage
AllDecoded ==
    \A k \in 1..Len(chunks) : storages[k] = DecodeLines(ChunkLines(k))

\* C3: when the calling thread reads the storages to build the Document, every
\* m_queue is empty and every job enqueued has been decoded in full; a worker
\* that has left run() has left no job in its queue
C3_DrainedBeforeCollect ==
    /\ cpc = "collect" => (AllDecoded /\ \A w \in Pool : queue[w] = <<>>)
    /\ \A w \in Readers : wpc[w] = "done" => queue[w] = <<>>

-----------------------------------------------------------------------------
(* Termination of the pool *)

\* the threads are scheduled fairly; a spurious wake-up is never owed
Fairness ==
    /\ WF_vars(AsyncCoordinator)
    /\ \A w \in Readers : WF_vars(run(w))

\* the calls of read_async_from_buffer on which termination is checked
InitLive ==
    /\ source \in { SourceOf(ls) : ls \in LineSeqs }
    /\ blockSize \in 1..MaxBlock
    /\ poolSize = 1
    /\ method = "ASYNC"
    /\ fileOpens = TRUE
    /\ ReaderStart
    /\ WriterIdle

SpecLive == InitLive /\ [][NextAsync]_vars /\ Fairness

\* C4: once shut_down has been called on a reader, its worker leaves run() and
\* the join of the destructor returns
C4_ShutdownCompletes ==
    \A w \in Readers : (~running[w]) ~> (w \in joined)

\* C7: when the decoding of a line fails in a worker job, the parallel read
\* ends with a format error, after every worker has been joined, and hands no
\* Document to the caller
HasMalformedLine ==
    \E i \in 1..Len(GetLines(BodyOf(source))) : DecodeFails(GetLines(BodyOf(source))[i])

C7_FormatErrorDelivered ==
    (method = "ASYNC" /\ cpc = "done" /\ fileOpens /\ Alive /\ HasMalformedLine)
        => /\ result = "format_error"
           /\ document = NoDocument
           /\ joined = Pool

-----------------------------------------------------------------------------
(* The splitting loop alone, on every body *)

SplitBytes == {"a", "b", NL}

Bodies == UNION { [1..n -> SplitBytes] : n \in 0..MaxBody }

InitSplit ==
    /\ source \in { HeaderLine \o <<NL>> \o b : b \in Bodies }
    /\ blockSize \in 1..MaxBlock
    /\ poolSize = 1
    /\ method = "ASYNC"
    /\ fileOpens = TRUE
    /\ ReaderStart
    /\ WriterIdle

\* the header is read, as in read_async_from_buffer
SplitHeader ==
    /\ cpc = "open"
    /\ document' = [header |-> read_header_from_buffer(source).header, rows |-> <<>>]
    /\ gpos' = read_header_from_buffer(source).pos
    /\ cpc' = "split"
    /\ UNCHANGED <<source, blockSize, poolSize, method, chunks, storages,
                   reader_index, queue, running, wpc, dtor, joined, finished,
                   writerVars, fileOpens, result>>

\* one iteration of the splitting loop, the chunk kept in chunks
SplitOnly ==
    /\ cpc = "split"
    /\ InAvail(source, gpos) > 0
    /\ LET ch == NextChunk(source, gpos, blockSize)
       IN  /\ chunks' = Append(chunks, [text |-> ch.text, from |-> ch.from])
           /\ gpos' = ch.pos
    /\ UNCHANGED <<source, blockSize, poolSize, method, cpc, storages,
                   reader_index, queue, running, wpc, dtor, joined, finished,
                   document, writerVars, fileOpens, result>>

\* the loop ends
SplitEnd ==
    /\ cpc = "split"
    /\ InAvail(source, gpos) = 0
    /\ cpc' = "split_done"
    /\ UNCHANGED <<source, blockSize, poolSize, method, gpos, chunks, storages,
                   reader_index, queue, running, wpc, dtor, joined, finished,
                   document, writerVars, fileOpens, result>>

NextSplit == SplitHeader \/ SplitOnly \/ SplitEnd

SpecSplit == InitSplit /\ [][NextSplit]_vars

\* the index in source of the last byte of chunk k
ChunkEnd(k) == chunks[k].from + Len(chunks[k].text) - 1

\* the index in source of the first byte of the body
BodyStart == read_header_from_buffer(source).pos + 1

\* C5: every chunk ends at a line terminator of the source (its last byte, or
\* the byte after it) or at the end of the source, and every chunk starts at
\* the first byte of a line
C5_ChunksEndAtLineEnd ==
    \A k \in 1..Len(chunks) :
        /\ \/ ChunkEnd(k) = Len(source)
           \/ source[ChunkEnd(k)] = NL
           \/ source[ChunkEnd(k) + 1] = NL
        /\ \/ chunks[k].from = BodyStart
           \/ source[chunks[k].from - 1] = NL

\* the bytes of the chunks, in production order
ChunkBytes == Flatten([k \in 1..Len(chunks) |-> chunks[k].text])

\* C6: once the body is split, the lines of the chunks are the lines of the
\* body (no chunk holds a part of a line) and the bytes of the chunks, in
\* production order, are the bytes of the body
C6_ChunksReproduceBody ==
    cpc = "split_done" =>
        /\ Flatten([k \in 1..Len(chunks) |-> ChunkLines(k)]) = GetLines(BodyOf(source))
        /\ ChunkBytes = BodyOf(source)

-----------------------------------------------------------------------------
(* write and experimental::write_async *)

\* unsigned int arithmetic
Wrap(x) == x % (2 ^ WordBits)

\* the header of a stream after the loop over the column names
HeaderCells(hdr) == Flatten([i \in 1..Len(hdr) |-> hdr[i] \o <<get_delimiter>>])

\* seekp(-1, cur) << std::endl on a string stream: the last byte is overwritten
OverwriteLast(text) == SubSeq(text, 1, Len(text) - 1) \o <<NL>>

\* the rows as write serializes them, one after the other
SerializeRows(rs) == Flatten([i \in 1..Len(rs) |-> serialize(rs[i])])

\* the buffer write hands to write_buffer_into_file
write_buffer(rs, hdr) ==
    (IF Len(hdr) > 0 THEN OverwriteLast(HeaderCells(hdr)) ELSE <<>>) \o SerializeRows(rs)

\* write_async falls back to write
UseSequentialLow(rows_num) == rows_num < thread_num - 1

UseSequential(rows_num) == rows_num < thread_num

chunk_size(rows_num) == rows_num \div thread_num

\* the rows left over by the division, without the 1 taken off
remaining_sizeExact(rows_num) == Wrap(rows_num - chunk_size(rows_num) * thread_num)

remaining_size(rows_num) == Wrap(rows_num - chunk_size(rows_num) * thread_num - 1)

\* the first index of writer thread i (i from 0)
ThreadCur(i, rows_num) == Wrap(chunk_size(rows_num) * i)

\* the last index of writer thread i: the loop runs while cur <= end
ThreadEnd(i, rows_num) ==
    IF i < thread_num - 1
    THEN Wrap(ThreadCur(i, rows_num) + chunk_size(rows_num))
    ELSE Wrap(ThreadCur(i, rows_num) + chunk_size(rows_num) + remaining_size(rows_num))

\* the indices at which writer thread i reads rows[cur]
ThreadIndices(i, rows_num) == ThreadCur(i, rows_num)..ThreadEnd(i, rows_num)

\* the bytes writer thread i puts into its buffer: the rows from cur to end
RECURSIVE ThreadLoop(_, _, _)
ThreadLoop(rs, cur, end) ==
    IF cur <= end THEN serialize(rs[cur + 1]) \o ThreadLoop(rs, cur + 1, end)
    ELSE <<>>

\* file << stream->rdbuf() for every stream in order: inserting no byte sets
\* the failbit of the file, and nothing is written after that
RECURSIVE InsertStreams(_, _)
InsertStreams(out, ss) ==
    IF Len(ss) = 0 \/ Len(ss[1]) = 0 THEN out
    ELSE InsertStreams(out \o ss[1], Tail(ss))

\* the bytes write_async puts into an open file: seekp(-1, cur) fails on an
\* empty file, and nothing is written after that
async_file(hdr, ss) ==
    IF Len(HeaderCells(hdr)) = 0 THEN <<>>
    ELSE InsertStreams(OverwriteLast(HeaderCells(hdr)), ss)

RowsOf(n) == [i \in 1..n |-> [name |-> <<"r">>, age |-> i]]

Headers == { <<>>, << <<"N">>, <<"A">> >> }

ReaderIdle ==
    /\ source = <<>>
    /\ blockSize = 1
    /\ poolSize = 1
    /\ method = "none"
    /\ cpc = "idle"
    /\ gpos = 0
    /\ chunks = <<>>
    /\ storages = <<>>
    /\ reader_index = 0
    /\ queue = [w \in Readers |-> <<>>]
    /\ running = [w \in Readers |-> TRUE]
    /\ wpc = [w \in Readers |-> "absent"]
    /\ dtor = -1
    /\ joined = {}
    /\ finished = <<>>
    /\ document = NoDocument

InitWrite ==
    /\ wmode \in {"write", "write_async"}
    /\ rows \in { RowsOf(n) : n \in 0..MaxRows }
    /\ header \in Headers
    /\ fileOpens \in BOOLEAN
    /\ wpc_ = "start"
    /\ buffer = <<>>
    /\ streams = <<>>
    /\ wthread = <<>>
    /\ file = NoFile
    /\ result = "none"
    /\ ReaderIdle

\* write is entered, directly or from write_async
CallWrite ==
    /\ wpc_ = "start"
    /\ wmode = "write" \/ UseSequential(Len(rows))
    /\ wpc_' = "write"
    /\ UNCHANGED <<readerVars, wmode, rows, header, buffer, streams, wthread,
                   file, fileOpens, result>>

\* write: the header and the rows go into the buffer
WriteFill ==
    /\ wpc_ = "write"
    /\ buffer' = write_buffer(rows, header)
    /\ wpc_' = "write_file"
    /\ UNCHANGED <<readerVars, wmode, rows, header, streams, wthread, file,
                   fileOpens, result>>

\* write_buffer_into_file: the buffer goes to the file, or io_exception
WriteFile ==
    /\ wpc_ = "write_file"
    /\ file' = IF fileOpens THEN buffer ELSE file
    /\ result' = IF fileOpens THEN "ok" ELSE "io_exception"
    /\ wpc_' = "done"
    /\ UNCHANGED <<readerVars, wmode, rows, header, buffer, streams, wthread,
                   fileOpens>>

\* write_async with enough rows: the next writer thread is created
SpawnThread ==
    /\ wmode = "write_async"
    /\ wpc_ \in {"start", "spawn"}
    /\ ~UseSequential(Len(rows))
    /\ Len(wthread) < thread_num
    /\ wthread' = Append(wthread, "running")
    /\ streams' = Append(streams, <<>>)
    /\ wpc_' = IF Len(wthread') = thread_num THEN "join" ELSE "spawn"
    /\ UNCHANGED <<readerVars, wmode, rows, header, buffer, file, fileOpens,
                   result>>

\* writer thread i (from 0) runs its loop; an index past the rows is a read
\* out of bounds
ThreadRun(i) ==
    /\ i + 1 \in 1..Len(wthread)
    /\ wthread[i + 1] = "running"
    /\ IF \A cur \in ThreadIndices(i, Len(rows)) : cur < Len(rows)
       THEN /\ streams' = [streams EXCEPT ![i + 1] =
                             ThreadLoop(rows, ThreadCur(i, Len(rows)),
                                        ThreadEnd(i, Len(rows)))]
            /\ wthread' = [wthread EXCEPT ![i + 1] = "finished"]
       ELSE /\ wthread' = [wthread EXCEPT ![i + 1] = "out_of_bounds"]
            /\ UNCHANGED streams
    /\ UNCHANGED <<readerVars, wmode, rows, header, wpc_, buffer, file,
                   fileOpens, result>>

\* the threads are joined in the order of their creation
JoinThread ==
    /\ wpc_ = "join"
    /\ \E i \in 1..Len(wthread) :
         /\ wthread[i] = "finished"
         /\ \A j \in 1..(i - 1) : wthread[j] = "joined"
         /\ wthread' = [wthread EXCEPT ![i] = "joined"]
         /\ wpc_' = IF i = Len(wthread) THEN "async_file" ELSE "join"
    /\ UNCHANGED <<readerVars, wmode, rows, header, buffer, streams, file,
                   fileOpens, result>>

\* write_async: std::ofstream file(filename), never tested, then the header
\* and the streams
AsyncWriteFile ==
    /\ wpc_ = "async_file"
    /\ file' = IF fileOpens THEN async_file(header, streams) ELSE file
    /\ result' = "ok"
    /\ wpc_' = "done"
    /\ UNCHANGED <<readerVars, wmode, rows, header, buffer, streams, wthread,
                   fileOpens>>

NextWrite ==
    \/ CallWrite
    \/ WriteFill
    \/ WriteFile
    \/ SpawnThread
    \/ \E i \in 0..(thread_num - 1) : ThreadRun(i)
    \/ JoinThread
    \/ AsyncWriteFile

SpecWrite == InitWrite /\ [][NextWrite]_vars

-----------------------------------------------------------------------------
(* Properties of the entry points *)

\* C8: when the file cannot be opened the call ends with io_exception, no
\* thread has been started, and there is neither a Document nor an output
C8_OpenFailureIsIOError ==
    (~fileOpens /\ (cpc = "done" \/ wpc_ = "done")) =>
        /\ result = "io_exception"
        /\ wthread = <<>>
        /\ \A w \in Readers : wpc[w] = "absent"
        /\ document = NoDocument
        /\ file = NoFile

\* C9: with at least thread_num rows the buffers of the writer threads, in
\* slice order, hold every row once: they are the rows as write serializes them
C9_SlicesEncodeEachRowOnce ==
    (wmode = "write_async" /\ wpc_ = "done" /\ Len(rows) >= thread_num) =>
        InsertStreams(<<>>, streams) = SerializeRows(rows)

\* the file and the result write leaves for the same arguments
SequentialFile == IF fileOpens THEN write_buffer(rows, header) ELSE NoFile

SequentialResult == IF fileOpens THEN "ok" ELSE "io_exception"

\* C10: with fewer rows than thread_num, write_async starts no thread and
\* leaves the file and the result that write leaves
C10_SmallInputIsSequential ==
    (wmode = "write_async" /\ Len(rows) < thread_num) =>
        /\ wthread = <<>>
        /\ streams = <<>>
        /\ wpc_ = "done" => (file = SequentialFile /\ result = SequentialResult)

\* write_async has returned for some rows, fewer than thread_num, and a header
C10_Witness ==
    /\ wmode = "write_async"
    /\ Len(rows) \in 1..(thread_num - 1)
    /\ Len(header) > 0
    /\ wpc_ = "done"
    /\ file = SequentialFile
    /\ file # NoFile

\* the header line an output starts with: the names joined by the delimiter,
\* then a newline
JoinedHeader(hdr) ==
    Flatten([i \in 1..Len(hdr) |->
               IF i < Len(hdr) THEN hdr[i] \o <<get_delimiter>> ELSE hdr[i]]) \o <<NL>>

\* C11: the header is optional on write and on write_async: with a header the
\* file written starts with the names joined by the delimiter and a newline,
\* and without a header the file is exactly the encoded rows
C11_HeaderIsOptional ==
    (wpc_ = "done" /\ fileOpens /\ result = "ok") =>
        IF Len(header) > 0
        THEN /\ Len(file) >= Len(JoinedHeader(header))
             /\ SubSeq(file, 1, Len(JoinedHeader(header))) = JoinedHeader(header)
        ELSE file = SerializeRows(rows)

-----------------------------------------------------------------------------
(* The job queues and the slots *)

\* the next step of the worker of reader w calls empty(), front() or pop() on
\* m_queue: in the wait predicate, in the test of the inner loop, in the
\* decoding of the front job
WorkerAccessesQueue(w) == wpc[w] \in {"wait_queue", "loop", "getline"}

\* the next step of the calling thread is the m_queue.push of enqueue on
\* reader w; enqueue takes no lock
CoordinatorAccessesQueue(w) == cpc = "enqueue" /\ reader_index = w

\* C12: m_queue of a reader is guarded by m_lock: the calling thread (push in
\* enqueue) and the worker (empty, front, pop in run) are never about to access
\* the same queue at the same time
C12_QueueGuardedByLock ==
    \A w \in Pool : ~(CoordinatorAccessesQueue(w) /\ WorkerAccessesQueue(w))

\* the slots of the jobs waiting in m_queue of reader w
QueuedSlots(w) == { queue[w][j].slot : j \in 1..Len(queue[w]) }

\* the slots whose job was popped
FinishedSlots == { finished[i] : i \in 1..Len(finished) }

\* the number of times the job of slot k was decoded to its end
TimesDecoded(k) == Cardinality({ i \in 1..Len(finished) : finished[i] = k })

\* no two jobs write the same slot and no slot is written by two threads: a
\* slot is the slot of at most one job, in at most one queue, a job popped is
\* in no queue any more, rows are only in a slot whose job is or was the front
\* job of a worker, and the calling thread reads the slots after every join
SlotsExclusive ==
    /\ \A w \in Readers : Cardinality(QueuedSlots(w)) = Len(queue[w])
    /\ \A w, v \in Readers : w # v => QueuedSlots(w) \cap QueuedSlots(v) = {}
    /\ \A w \in Readers : QueuedSlots(w) \cap FinishedSlots = {}
    /\ \A k \in 1..Len(storages) : TimesDecoded(k) <= 1
    /\ \A k \in 1..Len(storages) :
         storages[k] # <<>> =>
             \/ k \in FinishedSlots
             \/ \E w \in Pool : Len(queue[w]) > 0 /\ queue[w][1].slot = k
    /\ (cpc = "collect" \/ AsyncReturned) =>
         (joined = Pool /\ \A w \in Pool : wpc[w] = "done")

\* C13: every chunk is decoded by one worker, once, into the slot created for
\* it: the slots are exclusive, and when the calling thread reads them the job
\* of every chunk has been decoded exactly once
C13_ChunkDecodedExactlyOnce ==
    /\ SlotsExclusive
    /\ cpc = "collect" => \A k \in 1..Len(chunks) : TimesDecoded(k) = 1

\* C14: the chunks go to the readers in turn: the job of the k-th chunk
\* (counting from 0) is put in the queue of reader k mod N, N the size of the
\* pool, and reader_index is the reader of the chunk at hand or of the next one
C14_RoundRobinDispatch ==
    /\ \A w \in Readers : \A j \in 1..Len(queue[w]) :
         (queue[w][j].slot - 1) % poolSize = w
    /\ reader_index = IF cpc \in {"enqueue", "notify"} \/ ~Alive
                      THEN (Len(chunks) - 1) % poolSize
                      ELSE Len(chunks) % poolSize

\* more chunks than readers: a job whose index is past the size of the pool
\* waits in the queue of a reader, behind or after the first job of that reader
C14_Witness ==
    \E w \in Pool : \E j \in 1..Len(queue[w]) :
        /\ queue[w][j].slot > poolSize
        /\ (queue[w][j].slot - 1) % poolSize = w
        /\ Len(chunks) > poolSize

-----------------------------------------------------------------------------
(* The splitting loop: last line, single line, lines *)

\* the last element of a non-empty sequence
Last(s) == s[Len(s)]

\* the last line of the body has no line terminator
UnterminatedBody == Len(BodyOf(source)) > 0 /\ Last(BodyOf(source)) # NL

\* C15: when the last line of the source has no line terminator, the last
\* chunk holds that line in full, as its last line, whether the end of the
\* source is reached by the block read or by the completion of the last line
C15_LastLineInFinalChunk ==
    (cpc = "split_done" /\ UnterminatedBody) =>
        /\ Len(chunks) > 0
        /\ Len(ChunkLines(Len(chunks))) > 0
        /\ Last(ChunkLines(Len(chunks))) = Last(GetLines(BodyOf(source)))

\* the files whose body is one line, with or without its line terminator
SingleLineSources ==
    { HeaderLine \o <<NL>> \o l : l \in LineSet }
        \cup { HeaderLine \o <<NL>> \o l \o <<NL>> : l \in LineSet }

InitSingle ==
    /\ source \in SingleLineSources
    /\ blockSize \in 1..MaxBlock
    /\ poolSize \in 1..MaxPool
    /\ method = "ASYNC"
    /\ fileOpens = TRUE
    /\ ReaderStart
    /\ WriterIdle

\* read_async_from_buffer on a body of one line
SpecSingle == InitSingle /\ [][NextAsync]_vars

\* the body is a single line longer than the target chunk size
SingleLongLine ==
    /\ Len(GetLines(BodyOf(source))) = 1
    /\ Len(GetLines(BodyOf(source))[1]) > blockSize

\* C16: a body that is a single line longer than the target chunk size gives
\* one chunk that holds the whole line and one job, and the read returns the
\* one row of that line
C16_SingleLongLineOneChunk ==
    SingleLongLine =>
        /\ Len(chunks) <= 1
        /\ Len(storages) <= 1
        /\ AsyncReturned =>
             /\ Len(chunks) = 1
             /\ ChunkLines(1) = GetLines(BodyOf(source))
             /\ finished = <<1>>
             /\ document.rows = DecodeLines(GetLines(BodyOf(source)))

-----------------------------------------------------------------------------
(* A file with a header line only *)

HeaderOnly == BodyOf(source) = <<>>

\* no chunk, no slot and no job anywhere
NothingDispatched ==
    /\ chunks = <<>>
    /\ storages = <<>>
    /\ \A w \in Readers : queue[w] = <<>>

\* the call has returned the header and no row, every worker has left run()
ReturnedEmpty ==
    IF AsyncReturned
    THEN /\ \A w \in Pool : wpc[w] = "done"
         /\ document = [header |-> read_header_from_buffer(source).header,
                        rows |-> <<>>]
    ELSE FALSE

\* C17: for a file with a header line and an empty body the call ends: every
\* worker terminates on shutdown and the Document returned has the header and
\* no row, and by then the splitter has yielded no chunk, no slot was created
\* and no job was enqueued (chunks and storages never shrink)
C17_HeaderOnlyReturnsEmpty ==
    HeaderOnly ~> (ReturnedEmpty /\ NothingDispatched)

-----------------------------------------------------------------------------
(* The lines of the chunks *)

\* every line of the body is non-empty and ended by a newline
TerminatedLines ==
    /\ Len(BodyOf(source)) > 0 => Last(BodyOf(source)) = NL
    /\ \A i \in 1..Len(GetLines(BodyOf(source))) : Len(GetLines(BodyOf(source))[i]) > 0

\* the lines std::getline yields from the chunks, in the order of the chunks
LinesOfChunks == Flatten([k \in 1..Len(chunks) |-> ChunkLines(k)])

\* C18: for a body whose lines are all non-empty and ended by a newline, the
\* lines of the chunks, in chunk order, are the lines of the body: while the
\* body is split they are its first lines, and at the end all of them, for
\* every block size from 1 on
C18_ChunkLinesAreBodyLines ==
    TerminatedLines =>
        /\ Len(LinesOfChunks) <= Len(GetLines(BodyOf(source)))
        /\ LinesOfChunks = SubSeq(GetLines(BodyOf(source)), 1, Len(LinesOfChunks))
        /\ cpc = "split_done" => LinesOfChunks = GetLines(BodyOf(source))

\* a body of terminated lines was split into several chunks, one of them
\* longer than the block: its line was completed byte by byte
C18_Witness ==
    /\ cpc = "split_done"
    /\ TerminatedLines
    /\ Len(chunks) >= 2
    /\ \E k \in 1..Len(chunks) : Len(chunks[k].text) > blockSize
    /\ LinesOfChunks = GetLines(BodyOf(source))

-----------------------------------------------------------------------------
(* The indices of the writer threads *)

\* C19: in write_async with at least thread_num rows, chunk_size and
\* remaining_size being computed in unsigned arithmetic (remaining_size wraps
\* when the number of rows is a multiple of thread_num), every index at which
\* a writer thread reads rows[cur] is below the number of rows, and the loop
\* of every thread ends: its last index is below the largest unsigned value,
\* so cur <= end becomes false
C19_WriterIndicesInBounds ==
    (wmode = "write_async" /\ Len(rows) >= thread_num) =>
        /\ \A i \in 0..(thread_num - 1) :
             /\ \A cur \in ThreadIndices(i, Len(rows)) : 0 <= cur /\ cur < Len(rows)
             /\ ThreadEnd(i, Len(rows)) < 2 ^ WordBits - 1
        /\ \A i \in 1..Len(wthread) : wthread[i] # "out_of_bounds"

\* write_async has returned for a number of rows that is a multiple of
\* thread_num: remaining_size has wrapped and every thread was joined
C19_Witness ==
    /\ wmode = "write_async"
    /\ wpc_ = "done"
    /\ Len(rows) >= thread_num
    /\ Len(rows) % thread_num = 0
    /\ remaining_size(Len(rows)) = 2 ^ WordBits - 1
    /\ Len(wthread) = thread_num
    /\ \A i \in 1..Len(wthread) : wthread[i] = "joined"

-----------------------------------------------------------------------------
(* write, then read_from_buffer on the bytes written *)

\* names with and without the delimiter, and the empty name
PersonNames == { <<"a">>, <<>>, <<"b", ",">> }

PersonAges == {0, 12}

Persons == [name : PersonNames, age : PersonAges]

PersonSeqs == UNION { [1..n -> Persons] : n \in 0..MaxLines }

\* no header, one and two column names, and a header of one empty name
RoundTripHeaders == { <<>>, << <<"N">> >>, << <<"N">>, <<"A">> >>, << <<>> >> }

InitRoundTrip ==
    /\ wmode = "write"
    /\ rows \in PersonSeqs
    /\ header \in RoundTripHeaders
    /\ fileOpens = TRUE
    /\ wpc_ = "start"
    /\ buffer = <<>>
    /\ streams = <<>>
    /\ wthread = <<>>
    /\ file = NoFile
    /\ result = "none"
    /\ ReaderIdle

\* the file written is read back with Method::DEFAULT: read_from_buffer on its
\* bytes
ReadBack ==
    /\ wpc_ = "done"
    /\ result = "ok"
    /\ cpc = "idle"
    /\ source' = file
    /\ method' = "DEFAULT"
    /\ document' = read_from_buffer(file)
    /\ gpos' = Len(file)
    /\ cpc' = "done"
    /\ UNCHANGED <<blockSize, poolSize, chunks, storages, reader_index, queue,
                   running, wpc, dtor, joined, finished, writerVars, fileOpens,
                   result>>

NextRoundTrip == CallWrite \/ WriteFill \/ WriteFile \/ ReadBack

SpecRoundTrip == InitRoundTrip /\ [][NextRoundTrip]_vars

\* decode(encode(r)) = r for the codec: the line serialize writes for r is
\* deserialized to r
CodecRoundTrips(r) == deserialize(GetLine(serialize(r), NL).line) = r

\* a header of non-empty names that hold no delimiter and no newline
PlainHeader(hdr) ==
    /\ Len(hdr) > 0
    /\ \A i \in 1..Len(hdr) :
         /\ Len(hdr[i]) > 0
         /\ \A j \in 1..Len(hdr[i]) : hdr[i][j] \notin {get_delimiter, NL}

ReadBackDone == wmode = "write" /\ method = "DEFAULT" /\ cpc = "done"

\* C20: for rows the codec round-trips, read_from_buffer on the bytes that
\* write(rows, header) produced returns the header and the rows, in order,
\* when the header is one of plain non-empty names; when the header was
\* omitted the reader takes the first line written, the first row, for the
\* header and returns the rows after it
C20_WriteReadRoundTrip ==
    (ReadBackDone /\ \A i \in 1..Len(rows) : CodecRoundTrips(rows[i])) =>
        /\ PlainHeader(header) => document = [header |-> header, rows |-> rows]
        /\ (header = <<>> /\ Len(rows) > 0) =>
             /\ document.header = SplitCells(GetLine(serialize(rows[1]), NL).line)
             /\ document.rows = Tail(rows)
        /\ (header = <<>> /\ Len(rows) = 0) =>
             document = [header |-> <<>>, rows |-> <<>>]

\* two different rows were written under a header of two names and read back
C20_Witness ==
    /\ ReadBackDone
    /\ PlainHeader(header)
    /\ Len(header) = 2
    /\ Len(rows) = 2
    /\ rows[1] # rows[2]
    /\ \A i \in 1..Len(rows) : CodecRoundTrips(rows[i])
    /\ document = [header |-> header, rows |-> rows]

=============================================================================
